---- MODULE Spec2Model ----
(***************************************************************************)
(* State-machine model of src/main.py: the FastAPI dashboard that receives *)
(* trading signals on POST /webhook, keeps the most recent ones in the     *)
(* module-level list `signals`, keeps the module-level dict `stats`, and   *)
(* forwards every accepted signal to a Google Apps Script sink.            *)
(*                                                                         *)
(* Python values are modelled as tagged records [t |-> type, v |-> value]  *)
(* so that None, strings, numbers, lists and dicts can sit in the same     *)
(* position, as they do in Python.  A float is modelled by the integer it  *)
(* equals (all numbers used are whole); win_rate, the one float that is    *)
(* not whole, is modelled by the exact fraction [num, den] in lowest terms.*)
(***************************************************************************)
EXTENDS Integers, Sequences, FiniteSets, TLC

VARIABLES
    pc,             \* "boot": startup_event not run yet; "serving": the event loop
                    \* is idle; "forwarding": receive_signal is inside requests.post
    now,            \* the wall clock: index of the current calendar day
    signals,        \* the global `signals`
    stats,          \* the global `stats`
    request,        \* the body of the webhook request handled last
    response,       \* the HTTP answer to that request (status 0: none owed/sent yet)
    forward_data,   \* the local forward_data handed to requests.post
    forward_log,    \* what lines 146/148 logged for the last forward
    post_calls,     \* the sink's view: requests.post calls made, by lower-cased action
    startup_result, \* how startup_event ended
    seed,           \* what startup_event left behind: "empty" or "nonempty"
    inflight        \* the bodies of the requests whose handler is suspended at
                    \* `await request.body()`, line 89

vars == <<pc, now, signals, stats, request, response, forward_data, forward_log,
          post_calls, startup_result, seed, inflight>>

----------------------------------------------------------------------------
(* Bounds of the model *)

\* valid webhook requests handled in one run of Spec
MaxIngests == 2
\* requests drawn from the whole input set at the start of a run of SpecBurst
MaxVaried == 1
\* valid webhook requests handled in one run of SpecBurst (above capacity)
MaxBurst == 52
\* date roll-overs of the wall clock
MaxDay == 1
\* length of the short histories the sink returns at startup
MaxLoad == 1
\* handlers suspended at line 89 at the same time
MaxInflight == 2

(* Program constants *)

\* "Keep only last 50": if len(signals) > 50
Capacity == 50

DEFAULT_CHAT_ID == "-1003048841522"

----------------------------------------------------------------------------
(* Python values *)

PyNone == [t |-> "NoneType"]
PyStr(s) == [t |-> "str", v |-> s]
PyInt(n) == [t |-> "int", v |-> n]
PyFloat(n) == [t |-> "float", v |-> n]
PyList(l) == [t |-> "list", v |-> l]
PyDict(d) == [t |-> "dict", v |-> d]
\* bytes that json.loads / response.json() cannot decode
NotJson == [t |-> "undecodable"]
\* a raised exception
Raise(e) == [t |-> "raise", v |-> e]
IsRaise(x) == x.t = "raise"

\* dict.get(key, default)
Get(d, key, default) == IF key \in DOMAIN d.v THEN d.v[key] ELSE default

\* Python truthiness of the values a Signal field can hold
Truthy(x) ==
    CASE x.t = "NoneType" -> FALSE
      [] x.t = "str" -> x.v # ""
      [] x.t \in {"int", "float"} -> x.v # 0
      [] x.t = "list" -> x.v # <<>>
      [] OTHER -> TRUE

\* len(x): defined on lists, dicts and strings, TypeError otherwise
PyLen(x) ==
    CASE x.t = "list" -> PyInt(Len(x.v))
      [] x.t = "str" -> PyInt(Len(x.v))
      [] x.t = "dict" -> PyInt(Cardinality(DOMAIN x.v))
      [] OTHER -> Raise("TypeError")

\* str.lower() on the action strings of the model
Lower(s) ==
    CASE s \in {"buy", "BUY", "Buy"} -> "buy"
      [] s \in {"sell", "SELL", "Sell"} -> "sell"
      [] s \in {"win", "WIN", "Win"} -> "win"
      [] s \in {"loss", "LOSS", "Loss"} -> "loss"
      [] s \in {"close", "CLOSE"} -> "close"
      [] s = "Strong Buy" -> "strong buy"
      [] OTHER -> s

----------------------------------------------------------------------------
(* Fractions, for win_rate *)

RECURSIVE Gcd(_, _)
Gcd(a, b) == IF b = 0 THEN a ELSE Gcd(b, a % b)

\* the float n/d as a fraction in lowest terms (d > 0, n >= 0)
Frac(n, d) == IF n = 0 THEN [num |-> 0, den |-> 1]
              ELSE [num |-> n \div Gcd(n, d), den |-> d \div Gcd(n, d)]

----------------------------------------------------------------------------
(* class Signal(BaseModel), lines 37-49 *)

\* float(s) for the strings of the model; any other string is not a number
FloatOfStr == ("50000" :> 50000) @@ ("3000" :> 3000)

\* pydantic's coercion of a JSON value to float
ToFloat(x) ==
    CASE x.t \in {"int", "float"} -> PyFloat(x.v)
      [] x.t = "str" /\ x.v \in DOMAIN FloatOfStr -> PyFloat(FloatOfStr[x.v])
      [] OTHER -> Raise("ValidationError")

\* a field declared `name: str` (required) or `name: str = None`
StrFieldOk(p, key, required) ==
    IF key \in DOMAIN p.v THEN p.v[key].t = "str" ELSE ~required

\* mutant of FloatFieldOk: a value that is no number is let through
FloatFieldOkLenient(p, key, required) ==
    IF key \in DOMAIN p.v THEN TRUE ELSE ~required

\* a field declared `name: float` (required) or `name: float = 0.0`
FloatFieldOk(p, key, required) ==
    IF key \in DOMAIN p.v THEN ~IsRaise(ToFloat(p.v[key])) ELSE ~required

\* Signal(**payload): the validated object, or the exception raised
Signal(payload) ==
    IF payload.t # "dict" THEN Raise("TypeError")
    ELSE IF /\ StrFieldOk(payload, "action", TRUE)
            /\ StrFieldOk(payload, "ticker", TRUE)
            /\ FloatFieldOk(payload, "price", TRUE)
            /\ \A k \in {"sl", "tp1", "tp2", "tp3"} : FloatFieldOk(payload, k, FALSE)
            /\ \A k \in {"date", "time", "chat_id", "text"} : StrFieldOk(payload, k, FALSE)
         THEN [t |-> "Signal", v |->
              [action |-> payload.v["action"],
               ticker |-> payload.v["ticker"],
               price |-> ToFloat(payload.v["price"]),
               sl |-> ToFloat(Get(payload, "sl", PyFloat(0))),
               tp1 |-> ToFloat(Get(payload, "tp1", PyFloat(0))),
               tp2 |-> ToFloat(Get(payload, "tp2", PyFloat(0))),
               tp3 |-> ToFloat(Get(payload, "tp3", PyFloat(0))),
               date |-> Get(payload, "date", PyNone),
               time |-> Get(payload, "time", PyNone),
               chat_id |-> Get(payload, "chat_id", PyNone),
               text |-> Get(payload, "text", PyNone)]]
         ELSE Raise("ValidationError")

\* json.loads(body_bytes), retried on body_bytes.decode('utf-8') (lines 90-94):
\* a body is modelled by the value it decodes to, or by NotJson
JsonLoads(body) == IF body = NotJson THEN Raise("JSONDecodeError") ELSE body

\* lines 89-97: the Signal a request body parses to, or the exception raised
ParseBody(body) ==
    IF IsRaise(JsonLoads(body)) THEN JsonLoads(body) ELSE Signal(JsonLoads(body))

----------------------------------------------------------------------------
(* The inputs of the model *)

\* webhook bodies that json.loads or Signal(**payload) rejects
BadBodies ==
    { NotJson,
      PyList(<<>>),
      PyDict([action |-> PyStr("buy"), price |-> PyInt(50000)]),
      PyDict([ticker |-> PyStr("BTCUSD"), price |-> PyInt(50000)]),
      PyDict([action |-> PyStr("buy"), ticker |-> PyStr("BTCUSD")]),
      PyDict([action |-> PyStr("buy"), ticker |-> PyStr("BTCUSD"), price |-> PyStr("abc")]),
      PyDict([action |-> PyStr("buy"), ticker |-> PyStr("BTCUSD"), price |-> PyInt(50000),
              tp1 |-> PyStr("abc")]) }

\* the body of the spec's scenarios
BuyBody == PyDict([action |-> PyStr("buy"), ticker |-> PyStr("BTCUSD"), price |-> PyInt(50000)])

\* a body that supplies every field of Signal
SellBody ==
    PyDict([action |-> PyStr("SELL"), ticker |-> PyStr("ETHUSD"), price |-> PyStr("3000"),
            sl |-> PyInt(3100), tp1 |-> PyInt(2900), tp2 |-> PyInt(2800), tp3 |-> PyInt(2700),
            date |-> PyStr("2024-01-01"), time |-> PyStr("08:00:00"),
            chat_id |-> PyStr("42"), text |-> PyStr("custom")])

\* a body whose optional strings are supplied empty
BlankBody ==
    PyDict([action |-> PyStr("Strong Buy"), ticker |-> PyStr("ETHUSD"), price |-> PyInt(3000),
            date |-> PyStr(""), time |-> PyStr(""), chat_id |-> PyStr(""), text |-> PyStr("")])

\* a sell with its own stop and targets and neither chat_id nor text
ShortBody ==
    PyDict([action |-> PyStr("sell"), ticker |-> PyStr("ETHUSD"), price |-> PyInt(3000),
            sl |-> PyInt(3100), tp1 |-> PyInt(2900), tp2 |-> PyInt(2800), tp3 |-> PyInt(2700)])

\* a body without the required ticker
NoTickerBody == PyDict([action |-> PyStr("buy"), price |-> PyInt(50000)])

\* the bodies of the requests that are in flight together
ConcBodies == {BuyBody, SellBody, BlankBody, ShortBody, NoTickerBody}

\* webhook bodies that parse to a Signal
GoodBodies ==
    { BuyBody,
      SellBody,
      PyDict([action |-> PyStr("WIN"), ticker |-> PyStr("BTCUSD"), price |-> PyInt(50000)]),
      PyDict([action |-> PyStr("loss"), ticker |-> PyStr("BTCUSD"), price |-> PyInt(50000)]),
      PyDict([action |-> PyStr("close"), ticker |-> PyStr("BTCUSD"), price |-> PyInt(50000)]) }

Bodies == BadBodies \cup GoodBodies

\* rows of the sheet, as the sink returns them at startup
Rows ==
    { PyDict([action |-> PyStr("buy"), ticker |-> PyStr("BTCUSD"), date |-> PyStr("2024-01-01"),
              time |-> PyStr("08:00:00"), status |-> PyStr("WIN")]),
      PyDict([action |-> PyStr("sell"), ticker |-> PyStr("ETHUSD"), date |-> PyStr("2024-01-01"),
              time |-> PyStr("08:00:00"), status |-> PyStr("LOSS")]),
      PyDict([action |-> PyStr("buy"), ticker |-> PyStr("BTCUSD"), date |-> PyStr("2024-01-02"),
              time |-> PyStr("08:00:00"), status |-> PyStr("win")]),
      PyDict([action |-> PyStr("win"), ticker |-> PyStr("BTCUSD"), date |-> PyStr("2024-01-01"),
              time |-> PyStr("08:00:00")]) }

\* the lists of at most n rows
RECURSIVE RowLists(_)
RowLists(n) ==
    IF n = 0 THEN {<<>>}
    ELSE RowLists(n - 1) \cup
         {<<r>> \o l : r \in Rows, l \in {x \in RowLists(n - 1) : Len(x) = n - 1}}

\* n copies of one row
Repeated(row, n) == [i \in 1..n |-> row]

OldRow == PyDict([action |-> PyStr("buy"), ticker |-> PyStr("BTCUSD"),
                  date |-> PyStr("2024-01-01"), time |-> PyStr("08:00:00"),
                  status |-> PyStr("WIN")])

LostRow == PyDict([action |-> PyStr("sell"), ticker |-> PyStr("ETHUSD"),
                   date |-> PyStr("2024-01-01"), time |-> PyStr("08:00:00"),
                   status |-> PyStr("LOSS")])

OpenRow == PyDict([action |-> PyStr("buy"), ticker |-> PyStr("BTCUSD"),
                   date |-> PyStr("2024-01-02"), time |-> PyStr("08:00:00"),
                   status |-> PyStr("OPEN")])

\* a row of the sheet whose date and time cells are missing
UndatedRow == PyDict([action |-> PyStr("buy"), ticker |-> PyStr("BTCUSD"),
                      status |-> PyStr("OPEN")])

\* the histories of the scenarios: two wins and a loss; a win and an open trade
ScenarioHistories == { <<OldRow, OldRow, LostRow>>, <<OldRow, OpenRow>> }

\* the histories the sink returns: short ones of any rows, the scenarios, and
\* long ones around the capacity
Histories ==
    RowLists(MaxLoad) \cup ScenarioHistories
    \cup {Repeated(OldRow, n) : n \in {Capacity - 1, Capacity, Capacity + 1}}

\* a 200 answer of the sink carrying the JSON value `body`
Ok200(body) == [net |-> "ok", status_code |-> 200, body |-> body]

\* how the sink answers the startup GET
FailingResponses ==
    { [net |-> "error"],
      [net |-> "ok", status_code |-> 500, body |-> NotJson],
      Ok200(NotJson),
      Ok200(PyList(<<OldRow>>)),
      Ok200(PyDict([status |-> PyStr("error")])),
      Ok200(PyDict([status |-> PyStr("success"), data |-> PyNone])),
      Ok200(PyDict([status |-> PyStr("success"), data |-> PyList(<<OldRow, PyStr("x")>>)])) }

SinkResponses ==
    FailingResponses
    \cup { Ok200(PyDict([status |-> PyStr("success")])) }
    \cup { Ok200(PyDict([status |-> PyStr("success"), data |-> PyList(h)])) : h \in Histories }

\* how a requests.post to the sink can end
ForwardOutcomes == {"ok", "http_error", "exception"}

----------------------------------------------------------------------------
(* The initial state: module level, lines 26-35 *)

ZeroStats == [total_trades |-> 0, today_trades |-> 0, wins |-> 0, losses |-> 0,
              win_rate |-> Frac(0, 1)]

NoResponse == [status |-> 0, body |-> "none"]
Success == [status |-> 200, body |-> "success"]
Unprocessable == [status |-> 422, body |-> "detail"]

\* the lower-cased actions of the model's signals
SinkActions == {"buy", "sell", "win", "loss", "close", "strong buy"}

NoCalls == [a \in SinkActions |-> 0]

Init ==
    /\ pc = "boot"
    /\ now = 0
    /\ signals = PyList(<<>>)
    /\ stats = ZeroStats
    /\ request = PyNone
    /\ response = NoResponse
    /\ forward_data = PyNone
    /\ forward_log = "none"
    /\ post_calls = NoCalls
    /\ startup_result = "pending"
    /\ seed = "pending"
    /\ inflight = <<>>

----------------------------------------------------------------------------
(* startup_event, lines 51-75 *)

\* mutant of CountStatus: the status is compared in any letter case
RECURSIVE CountStatusAnyCase(_, _)
CountStatusAnyCase(l, mark) ==
    IF l = <<>> THEN 0
    ELSE (IF /\ Get(Head(l), "status", PyNone).t = "str"
             /\ Lower(Get(Head(l), "status", PyNone).v) = Lower(mark)
          THEN 1 ELSE 0)
         + CountStatusAnyCase(Tail(l), mark)

\* sum(1 for s in signals if s.get("status") == mark), over a list of dicts
RECURSIVE CountStatus(_, _)
CountStatus(l, mark) ==
    IF l = <<>> THEN 0
    ELSE (IF Get(Head(l), "status", PyNone) = PyStr(mark) THEN 1 ELSE 0)
         + CountStatus(Tail(l), mark)

\* whether iterating x and calling s.get on each item raises AttributeError:
\* the items of a list that are no dicts, and every item of a str or a dict
\* (its characters, its keys)
HasNonDictItem(x) ==
    IF x.t = "list" THEN \E i \in 1..Len(x.v) : x.v[i].t # "dict"
    ELSE PyLen(x).v > 0

\* mutant of Recalculated: win_rate over the decided trades, wins + losses
RecalculatedOverOutcomes(st, loaded) ==
    LET wins == IF loaded.t = "list" THEN CountStatus(loaded.v, "WIN") ELSE 0
        losses == IF loaded.t = "list" THEN CountStatus(loaded.v, "LOSS") ELSE 0
        total == PyLen(loaded).v
    IN  [st EXCEPT !.total_trades = total,
                   !.wins = wins,
                   !.losses = losses,
                   !.win_rate = IF wins + losses > 0 THEN Frac(wins * 100, wins + losses)
                                ELSE Frac(0, 1)]

\* mutant of Recalculated: win_rate as the ratio of wins to losses
RecalculatedWinLossRatio(st, loaded) ==
    LET wins == IF loaded.t = "list" THEN CountStatus(loaded.v, "WIN") ELSE 0
        losses == IF loaded.t = "list" THEN CountStatus(loaded.v, "LOSS") ELSE 0
        total == PyLen(loaded).v
    IN  [st EXCEPT !.total_trades = total,
                   !.wins = wins,
                   !.losses = losses,
                   !.win_rate = IF losses > 0 THEN Frac(wins * 100, losses) ELSE Frac(0, 1)]

\* lines 66-73: the stats recomputed from the loaded list
Recalculated(st, loaded) ==
    LET wins == IF loaded.t = "list" THEN CountStatus(loaded.v, "WIN") ELSE 0
        losses == IF loaded.t = "list" THEN CountStatus(loaded.v, "LOSS") ELSE 0
        total == PyLen(loaded).v
    IN  [st EXCEPT !.total_trades = total,
                   !.wins = wins,
                   !.losses = losses,
                   !.win_rate = IF total > 0 THEN Frac(wins * 100, total) ELSE Frac(0, 1)]

\* lines 54-75: the globals after startup_event, and how it ended:
\* "seeded" (line 73 reached), "skipped" (an if was false), "failed" (line 75)
Reconciled(resp, sig, st) ==
    IF resp.net = "error"
    THEN [signals |-> sig, stats |-> st, result |-> "failed"]
    ELSE IF resp.status_code # 200
    THEN [signals |-> sig, stats |-> st, result |-> "skipped"]
    ELSE IF resp.body = NotJson \/ resp.body.t # "dict"
    THEN [signals |-> sig, stats |-> st, result |-> "failed"]
    ELSE IF Get(resp.body, "status", PyNone) # PyStr("success")
    THEN [signals |-> sig, stats |-> st, result |-> "skipped"]
    ELSE LET loaded == Get(resp.body, "data", PyList(<<>>))
         IN  IF IsRaise(PyLen(loaded)) \/ HasNonDictItem(loaded)
             THEN [signals |-> loaded, stats |-> st, result |-> "failed"]
             ELSE [signals |-> loaded, stats |-> Recalculated(st, loaded),
                   result |-> "seeded"]

\* mutant of StartupEvent: the load is left to a background task, which runs
\* when the service is already taking requests
StartupEventDeferred(resp) ==
    IF pc = "boot"
    THEN /\ startup_result = "pending"
         /\ startup_result' = "deferred"
         /\ pc' = "serving"
         /\ UNCHANGED <<now, signals, stats, request, response, forward_data,
                        forward_log, post_calls, seed, inflight>>
    ELSE /\ pc = "serving"
         /\ startup_result = "deferred"
         /\ LET r == Reconciled(resp, signals, stats)
            IN  /\ signals' = r.signals
                /\ stats' = r.stats
                /\ startup_result' = r.result
                /\ seed' = "nonempty"
         /\ UNCHANGED <<pc, now, request, response, forward_data, forward_log,
                        post_calls, inflight>>

StartupEvent(resp) ==
    /\ pc = "boot"
    /\ LET r == Reconciled(resp, signals, stats)
       IN  /\ signals' = r.signals
           /\ stats' = r.stats
           /\ startup_result' = r.result
           /\ seed' = IF r.signals = PyList(<<>>) /\ r.stats = ZeroStats
                      THEN "empty" ELSE "nonempty"
    /\ pc' = "serving"
    /\ UNCHANGED <<now, request, response, forward_data, forward_log, post_calls,
                   inflight>>

----------------------------------------------------------------------------
(* receive_signal, lines 85-154 *)

\* now.strftime("%Y-%m-%d") for the days of the model
DateStr(day) == "2024-01-0" \o ToString(day + 1)

\* now.strftime("%H:%M:%S"): the time of day is not modelled
TimeStr(day) == "09:30:00"

\* lines 99-105: the signal with date and time filled in when falsy
Stamped(sig, day) ==
    [sig EXCEPT !.v.date = IF ~Truthy(@) THEN PyStr(DateStr(day)) ELSE @,
                !.v.time = IF ~Truthy(@) THEN PyStr(TimeStr(day)) ELSE @]

\* mutant of StatsUpdated: total_trades follows the length of the bounded history
StatsUpdatedCapped(st, sig) ==
    [st EXCEPT !.total_trades = IF @ < Capacity THEN @ + 1 ELSE @,
               !.today_trades = @ + 1]

\* mutant of StatsUpdated: outcome signals move wins and losses, not the totals
StatsUpdatedByClass(st, sig) ==
    IF Lower(sig.v.action.v) = "win" THEN [st EXCEPT !.wins = @ + 1]
    ELSE IF Lower(sig.v.action.v) = "loss" THEN [st EXCEPT !.losses = @ + 1]
    ELSE [st EXCEPT !.total_trades = @ + 1, !.today_trades = @ + 1]

\* mutant of StatsUpdated: only buy, sell, win and loss signals are counted
StatsUpdatedRecognized(st, sig) ==
    IF Lower(sig.v.action.v) \in {"buy", "sell", "win", "loss"}
    THEN [st EXCEPT !.total_trades = @ + 1, !.today_trades = @ + 1]
    ELSE st

\* lines 107-109
StatsUpdated(st, sig) ==
    [st EXCEPT !.total_trades = @ + 1, !.today_trades = @ + 1]

\* mutant of Inserted: only buy and sell signals are stored
InsertedEntriesOnly(l, d) ==
    IF Lower(d.v.action.v) \in {"buy", "sell"}
    THEN (IF Len(l) + 1 > Capacity THEN <<d>> \o SubSeq(l, 1, Len(l) - 1) ELSE <<d>> \o l)
    ELSE l

\* mutant of Inserted: the new row is appended, the list is oldest first
InsertedAtTail(l, d) ==
    LET grown == Append(l, d)
    IN  IF Len(grown) > Capacity THEN Tail(grown) ELSE grown

\* mutant of Inserted: the new row is written over the row at the head
InsertedOverHead(l, d) == IF l = <<>> THEN <<d>> ELSE <<d>> \o Tail(l)

\* lines 113-117: insert at the head, pop the tail when over 50
Inserted(l, d) ==
    LET grown == <<d>> \o l
    IN  IF Len(grown) > Capacity THEN SubSeq(grown, 1, Len(grown) - 1) ELSE grown

\* str(x) of a float holding a whole number
FloatStr(x) == ToString(x.v) \o ".0"

\* `sub in s` on strings
Contains(s, sub) ==
    \E i \in 1..(Len(s) - Len(sub) + 1) : SubSeq(s, i, i + Len(sub) - 1) = sub

\* mutant of Emoji: the buy marker only for the action "buy" itself
EmojiExact(sig) == IF Lower(sig.v.action.v) = "buy" THEN "[green]" ELSE "[red]"

\* line 133: the marker is the buy one when "buy" is in action.lower(); the two
\* emoji are written [green] and [red]
Emoji(sig) == IF Contains(Lower(sig.v.action.v), "buy") THEN "[green]" ELSE "[red]"

\* lines 134-141
SynthText(sig) ==
    Emoji(sig) \o " <b>SIGNAL RECEIVED</b>\n"
    \o "<b>Ticker:</b> " \o sig.v.ticker.v \o "\n"
    \o "<b>Action:</b> " \o sig.v.action.v \o "\n"
    \o "<b>Price:</b> " \o FloatStr(sig.v.price) \o "\n"
    \o "<b>TP1:</b> " \o FloatStr(sig.v.tp1) \o " | <b>TP2:</b> " \o FloatStr(sig.v.tp2)
    \o " | <b>TP3:</b> " \o FloatStr(sig.v.tp3) \o "\n"
    \o "<b>SL:</b> " \o FloatStr(sig.v.sl)

\* mutant of SignalDict: the stored dict is the one the forward fills in
SignalDictShared(sig) ==
    PyDict([sig.v EXCEPT !.chat_id = IF ~Truthy(@) THEN PyStr(DEFAULT_CHAT_ID) ELSE @,
                         !.text = IF ~Truthy(@) THEN PyStr(SynthText(sig)) ELSE @])

\* line 112: signal.dict()
SignalDict(sig) == PyDict(sig.v)

\* lines 124-141: the copy of signal_dict that is forwarded
ForwardData(sig) ==
    LET d == SignalDict(sig)
    IN  [d EXCEPT !.v.chat_id = IF ~Truthy(@) THEN PyStr(DEFAULT_CHAT_ID) ELSE @,
                  !.v.text = IF ~Truthy(@) THEN PyStr(SynthText(sig)) ELSE @]

\* lines 87-145 and 152-154: the handler up to its call of requests.post, or to
\* the 422 it answers when anything before that call raised.  The handler has
\* no await after request.body(), so nothing else runs in between.  What
\* becomes of `inflight` is said where the action is used.
ReceiveSignal(body) ==
    /\ pc = "serving"
    /\ request' = body
    /\ LET parsed == ParseBody(body)
       IN  IF IsRaise(parsed)
           THEN /\ response' = Unprocessable
                /\ UNCHANGED <<pc, signals, stats, forward_data, post_calls>>
           ELSE LET sig == Stamped(parsed, now)
                IN  /\ stats' = StatsUpdated(stats, sig)
                    /\ IF signals.t # "list"
                       THEN \* signals.insert raises AttributeError
                            /\ response' = Unprocessable
                            /\ UNCHANGED <<pc, signals, forward_data, post_calls>>
                       ELSE /\ signals' = PyList(Inserted(signals.v, SignalDict(sig)))
                            /\ forward_data' = ForwardData(sig)
                            /\ post_calls' =
                                 [post_calls EXCEPT ![Lower(sig.v.action.v)] = @ + 1]
                            /\ response' = NoResponse
                            /\ pc' = "forwarding"
    /\ UNCHANGED <<now, forward_log, startup_result, seed>>

\* mutant of ForwardReturn: an exception of requests.post reaches the outer handler
ForwardReturnRaising(outcome) ==
    /\ pc = "forwarding"
    /\ forward_log' = IF outcome = "exception" THEN "failed" ELSE "forwarded"
    /\ response' = IF outcome = "exception" THEN Unprocessable ELSE Success
    /\ pc' = "serving"
    /\ UNCHANGED <<now, signals, stats, request, forward_data, post_calls,
                   startup_result, seed, inflight>>

\* lines 145-150: requests.post returns or raises; either way the handler logs
\* and returns the success body
ForwardReturn(outcome) ==
    /\ pc = "forwarding"
    /\ forward_log' = IF outcome = "exception" THEN "failed" ELSE "forwarded"
    /\ response' = Success
    /\ pc' = "serving"
    /\ UNCHANGED <<now, signals, stats, request, forward_data, post_calls,
                   startup_result, seed, inflight>>

\* lines 86-89: the event loop starts the handler of a new request, which
\* suspends at `await request.body()`; it has read no global yet
AwaitBody(body) ==
    /\ pc = "serving"
    /\ Len(inflight) < MaxInflight
    /\ inflight' = Append(inflight, body)
    /\ UNCHANGED <<pc, now, signals, stats, request, response, forward_data,
                   forward_log, post_calls, startup_result, seed>>

\* the sequence l without its i-th element
Without(l, i) == SubSeq(l, 1, i - 1) \o SubSeq(l, i + 1, Len(l))

\* lines 89-145: the event loop resumes one of the suspended handlers, in any
\* order, and the handler runs on to requests.post without yielding
Resume(i) ==
    /\ i \in 1..Len(inflight)
    /\ ReceiveSignal(inflight[i])
    /\ inflight' = Without(inflight, i)

\* lines 77-83: the context read_dashboard hands to the template: the globals
\* as they are, nothing recomputed
ReadDashboard == [stats |-> stats, signals |-> signals]

\* the calendar date rolls over
Tick ==
    /\ pc # "boot"
    /\ now < MaxDay
    /\ now' = now + 1
    /\ UNCHANGED <<pc, signals, stats, request, response, forward_data, forward_log,
                   post_calls, startup_result, seed, inflight>>

----------------------------------------------------------------------------
(* The specifications *)

Next ==
    \/ \E resp \in SinkResponses : StartupEvent(resp)
    \/ \E body \in Bodies :
          stats.today_trades < MaxIngests /\ ReceiveSignal(body) /\ UNCHANGED inflight
    \/ \E outcome \in ForwardOutcomes : ForwardReturn(outcome)
    \/ Tick

Spec == Init /\ [][Next]_vars

\* a burst of requests: after the first MaxVaried, every request is BuyBody
BurstResponses ==
    FailingResponses \cup { Ok200(PyDict([status |-> PyStr("success")])) }

NextBurst ==
    \/ \E resp \in BurstResponses : StartupEvent(resp)
    \/ \E body \in (IF stats.today_trades < MaxVaried THEN Bodies ELSE {BuyBody}) :
          stats.today_trades < MaxBurst /\ ReceiveSignal(body) /\ UNCHANGED inflight
    \/ \E outcome \in ForwardOutcomes : ForwardReturn(outcome)

SpecBurst == Init /\ [][NextBurst]_vars

\* several requests in flight: their handlers are started and resumed in any
\* order
ConcResponses ==
    { [net |-> "error"],
      Ok200(PyDict([status |-> PyStr("success")])),
      Ok200(PyDict([status |-> PyStr("success"), data |-> PyNone])),
      Ok200(PyDict([status |-> PyStr("success"), data |-> PyList(<<OldRow, OpenRow>>)])),
      Ok200(PyDict([status |-> PyStr("success"), data |-> PyList(<<UndatedRow>>)])) }

NextConc ==
    \/ \E resp \in ConcResponses : StartupEvent(resp)
    \/ \E body \in ConcBodies :
          stats.today_trades < MaxIngests /\ AwaitBody(body)
    \/ \E i \in 1..MaxInflight : Resume(i)
    \/ \E outcome \in ForwardOutcomes : ForwardReturn(outcome)

SpecConc == Init /\ [][NextConc]_vars

\* the same, with the scheduling the code has: the event loop resumes a
\* handler whose body has arrived.  Nothing makes the sink answer: neither the
\* requests.get of line 56 nor the requests.post of line 145 has a timeout, so
\* the startup may never end and a forward may never return.  Nor is the
\* startup sure to begin: run as a script, line 157 raises NameError (os is
\* not imported) before uvicorn.run.
SpecLive ==
    /\ SpecConc
    /\ WF_vars(\E i \in 1..MaxInflight : Resume(i))

----------------------------------------------------------------------------
(* The claims *)

\* the class of an action, compared case-insensitively
ActionClass(action) ==
    CASE Lower(action) \in {"buy", "sell"} -> "entry"
      [] Lower(action) = "win" -> "win"
      [] Lower(action) = "loss" -> "loss"
      [] OTHER -> "other"

\* the accepted signals of class `class` handed to the sink so far
RECURSIVE SumCalls(_, _)
SumCalls(calls, actions) ==
    IF actions = {} THEN 0
    ELSE LET a == CHOOSE x \in actions : TRUE
         IN  calls[a] + SumCalls(calls, actions \ {a})

Accepted(class) == SumCalls(post_calls, {a \in SinkActions : ActionClass(a) = class})

AcceptedAll(calls) == SumCalls(calls, SinkActions)

\* a step of receive_signal that accepted a signal of class `class`
IngestStep(class) ==
    /\ pc = "serving"
    /\ pc' = "forwarding"
    /\ ActionClass(request'.v["action"].v) = class

\* the rows of list l whose field `key` is the string `mark`
RowsMarked(l, key, mark) ==
    {i \in 1..Len(l) : key \in DOMAIN l[i].v /\ l[i].v[key] = PyStr(mark)}

\* the rows of list l whose action or result field is `mark` in any letter case
RowsWithOutcome(l, mark) ==
    {i \in 1..Len(l) :
        \E key \in {"action", "result"} :
            /\ key \in DOMAIN l[i].v
            /\ l[i].v[key].t = "str"
            /\ Lower(l[i].v[key].v) = mark}

\* C1: in every reachable state the history list holds at most 50 entries,
\* also after a reconciliation that returned more than 50.
C1_HistoryWithinCapacity ==
    signals.t = "list" => Len(signals.v) <= Capacity

\* C2: from the empty state, after N successfully ingested entry signals (and
\* no other signal) total_trades is N, also for N above the capacity.
C2_TotalCountsEntries ==
    (/\ pc # "boot"
     /\ seed = "empty"
     /\ Accepted("win") = 0 /\ Accepted("loss") = 0 /\ Accepted("other") = 0)
    => stats.total_trades = Accepted("entry")

\* C2 witness: capacity+1 entries ingested from the empty state, the oldest evicted
C2_Witness ==
    /\ pc = "serving"
    /\ seed = "empty"
    /\ Accepted("entry") = Capacity + 1
    /\ AcceptedAll(post_calls) = Capacity + 1
    /\ Len(signals.v) = Capacity
    /\ stats.total_trades = Capacity + 1

\* C3 as stated: an accepted 'win' increments wins by exactly 1, an accepted
\* 'loss' increments losses by exactly 1, and total_trades is left unchanged.
C3_OutcomeUpdatesCounters ==
    [][/\ IngestStep("win") =>
            stats'.wins = stats.wins + 1 /\ stats'.total_trades = stats.total_trades
       /\ IngestStep("loss") =>
            stats'.losses = stats.losses + 1 /\ stats'.total_trades = stats.total_trades
      ]_vars

\* C3 amended: an accepted outcome signal (win or loss, any letter case) leaves
\* wins, losses and win_rate unchanged and increments total_trades and
\* today_trades by exactly 1, as any accepted signal does.
C3_OutcomeCountsAsTrade ==
    [][(IngestStep("win") \/ IngestStep("loss")) =>
            /\ stats'.wins = stats.wins
            /\ stats'.losses = stats.losses
            /\ stats'.win_rate = stats.win_rate
            /\ stats'.total_trades = stats.total_trades + 1
            /\ stats'.today_trades = stats.today_trades + 1
      ]_vars

\* C3 witness: a 'WIN' answered right after one 'buy' on the empty state:
\* wins = 0, total_trades = 2, win_rate = 0.0
C3_Witness ==
    /\ pc = "serving"
    /\ seed = "empty"
    /\ response = Success
    /\ post_calls = [NoCalls EXCEPT !["buy"] = 1, !["win"] = 1]
    /\ request.v["action"] = PyStr("WIN")
    /\ stats.wins = 0
    /\ stats.total_trades = 2
    /\ stats.win_rate = Frac(0, 1)

\* C4 as stated: an accepted outcome signal leaves the history list unchanged
\* in length and content.
C4_OutcomeNotStored ==
    [][(IngestStep("win") \/ IngestStep("loss")) => signals' = signals]_vars

\* C4 amended: an accepted outcome signal is stored like any accepted signal:
\* it becomes the head of the history list, in front of the previous entries,
\* of which the last is dropped exactly when the list would exceed 50.
C4_OutcomeStoredAtHead ==
    [][(IngestStep("win") \/ IngestStep("loss")) =>
            /\ signals'.t = "list"
            /\ Len(signals'.v) =
                 IF Len(signals.v) + 1 > Capacity THEN Len(signals.v)
                 ELSE Len(signals.v) + 1
            /\ Head(signals'.v).v.action = request'.v["action"]
            /\ Head(signals'.v).v.ticker = request'.v["ticker"]
            /\ Tail(signals'.v) = SubSeq(signals.v, 1, Len(signals'.v) - 1)
      ]_vars

\* C4 witness: an answered 'loss' sits at the head of a full history
C4_Witness ==
    /\ pc = "serving"
    /\ response = Success
    /\ signals.t = "list"
    /\ Len(signals.v) = Capacity
    /\ Head(signals.v).v.action = PyStr("loss")
    /\ post_calls["loss"] = 1

\* C5: a request whose body is no JSON or fails Signal validation is answered
\* 422, changes neither history nor stats, and makes no call to the sink.
C5_BadBodyRejected ==
    [][(pc = "serving" /\ now' = now /\ request' \in BadBodies) =>
            /\ response' = Unprocessable
            /\ pc' = "serving"
            /\ signals' = signals
            /\ stats' = stats
            /\ post_calls' = post_calls
            /\ forward_data' = forward_data
      ]_vars

\* C5 witness: a body without ticker was answered 422 after one accepted
\* signal, and the counters are those of the one signal
C5_Witness ==
    /\ pc = "serving"
    /\ request = PyDict([action |-> PyStr("buy"), price |-> PyInt(50000)])
    /\ response = Unprocessable
    /\ stats.total_trades = 1
    /\ post_calls = [NoCalls EXCEPT !["buy"] = 1]

\* C6: however the call to the sink ends (success, exception, non-success
\* status), the caller is answered success, history and stats stay as the
\* ingest left them, and the sink is called once per accepted request.
C6_ForwardOutcomeIgnored ==
    [][/\ pc = "forwarding" =>
            /\ signals' = signals
            /\ stats' = stats
            /\ post_calls' = post_calls
            /\ forward_data' = forward_data
            /\ \/ pc' = "forwarding" /\ response' = NoResponse
               \/ pc' = "serving" /\ response' = Success
       /\ AcceptedAll(post_calls') <= AcceptedAll(post_calls) + 1
      ]_vars

\* C6 witness: the forward raised and the caller was answered success
C6_Witness ==
    /\ pc = "serving"
    /\ forward_log = "failed"
    /\ response = Success
    /\ stats.total_trades = 1
    /\ post_calls = [NoCalls EXCEPT !["buy"] = 1]

\* C7: when startup reconciliation fails in any way, history is empty and
\* total_trades, wins, losses and win_rate are zero once startup is over.
C7_FailureLeavesEmpty ==
    (pc # "boot" /\ startup_result \in {"failed", "skipped"} /\ stats.today_trades = 0)
    => signals = PyList(<<>>) /\ stats = ZeroStats

\* C8 as stated: after a successful reconciliation wins (losses) is the number
\* of loaded entries whose action or result field is 'win' ('loss') in any
\* letter case, and total_trades is recomputed from the loaded entries.
C8_OutcomeMarkerCounted ==
    (pc # "boot" /\ startup_result = "seeded" /\ stats.today_trades = 0)
    => /\ stats.wins = Cardinality(RowsWithOutcome(signals.v, "win"))
       /\ stats.losses = Cardinality(RowsWithOutcome(signals.v, "loss"))
       /\ stats.total_trades = Len(signals.v)

\* C8 amended: after a successful reconciliation wins is the number of loaded
\* entries whose status field is exactly "WIN", losses the number whose status
\* field is exactly "LOSS" (case-sensitive; action and result are not read),
\* and total_trades is the number of loaded entries.
C8_StatusCounted ==
    (pc # "boot" /\ startup_result = "seeded" /\ stats.today_trades = 0)
    => /\ stats.wins = Cardinality(RowsMarked(signals.v, "status", "WIN"))
       /\ stats.losses = Cardinality(RowsMarked(signals.v, "status", "LOSS"))
       /\ stats.total_trades = Len(signals.v)

\* C8 witness: three loaded entries, two WIN and one LOSS
C8_Witness ==
    /\ pc = "serving"
    /\ startup_result = "seeded"
    /\ signals = PyList(<<OldRow, OldRow, LostRow>>)
    /\ stats.total_trades = 3
    /\ stats.wins = 2
    /\ stats.losses = 1
    /\ stats.win_rate = Frac(200, 3)

\* C9 as stated: in every reachable state win_rate is wins / (wins + losses) * 100,
\* and 0.0 when wins + losses = 0.
C9_WinRateOverOutcomes ==
    pc # "boot" =>
        stats.win_rate = IF stats.wins + stats.losses = 0 THEN Frac(0, 1)
                         ELSE Frac(stats.wins * 100, stats.wins + stats.losses)

\* C9 amended: in every reachable state win_rate is wins / L * 100, where L is
\* the number of entries startup reconciliation loaded (total_trades less the
\* ingests counted since, which today_trades holds), and 0.0 when L = 0: it is
\* computed at startup and not recomputed by an ingest.
C9_WinRateOverLoaded ==
    pc # "boot" =>
        stats.win_rate =
            IF stats.total_trades - stats.today_trades > 0
            THEN Frac(stats.wins * 100, stats.total_trades - stats.today_trades)
            ELSE Frac(0, 1)

\* C9 witness: a WIN and an open trade were loaded, then one signal ingested:
\* win_rate is 50.0
C9_Witness ==
    /\ pc = "serving"
    /\ stats.wins = 1
    /\ stats.losses = 0
    /\ stats.total_trades = 3
    /\ stats.today_trades = 1
    /\ stats.win_rate = Frac(100, 2)

\* C10: in every reachable state win_rate is within [0, 100], and it is 0.0
\* whenever wins + losses = 0.
C10_WinRateInRange ==
    /\ stats.win_rate.den > 0
    /\ stats.win_rate.num >= 0
    /\ stats.win_rate.num <= 100 * stats.win_rate.den
    /\ stats.wins + stats.losses = 0 => stats.win_rate = Frac(0, 1)

\* C10 witness: only wins loaded, win_rate is 100.0, and an ingest has happened
C10_Witness ==
    /\ pc = "serving"
    /\ stats.wins > 0
    /\ stats.losses = 0
    /\ stats.today_trades > 0
    /\ stats.win_rate = Frac(100, 1)

\* the entries of the history whose date is the calendar date of day `day`
EntriesDated(l, day) ==
    {i \in 1..Len(l) : "date" \in DOMAIN l[i].v /\ l[i].v["date"] = PyStr(DateStr(day))}

\* C11: whenever the dashboard reads the stats, today_trades is the number of
\* history entries dated with the current calendar date: after the startup
\* reconciliation, after evictions, and after the date rolled over.
C11_TodayCountsTodaysEntries ==
    (pc = "serving" /\ ReadDashboard.signals.t = "list")
    => ReadDashboard.stats.today_trades
         = Cardinality(EntriesDated(ReadDashboard.signals.v, now))

\* the history rows whose lower-cased action is a
RowsOfAction(l, a) == {i \in 1..Len(l) : Lower(l[i].v["action"].v) = a}

\* C12: with several requests in flight and their handlers resumed in any
\* order, no update is lost: the history grows with the counter, and from the
\* empty state, once k valid requests went through, total_trades is k and the
\* history holds one row for each of them.
C12_NoUpdateLost ==
    (pc # "boot" /\ signals.t = "list")
    => /\ stats.today_trades = AcceptedAll(post_calls)
       /\ Len(signals.v) = stats.total_trades
       /\ seed = "empty"
          => /\ stats.total_trades = AcceptedAll(post_calls)
             /\ \A a \in SinkActions :
                   Cardinality(RowsOfAction(signals.v, a)) = post_calls[a]

\* two valid requests went through while a further one was waiting at line 89
C12_Witness ==
    /\ pc = "forwarding"
    /\ inflight # <<>>
    /\ seed = "empty"
    /\ AcceptedAll(post_calls) = 2
    /\ stats.total_trades = 2

\* C13: the success answer of a valid ingest does not wait on the sink: while
\* the forward is in progress the caller already has its answer.
C13_AnswerDoesNotWaitOnSink ==
    pc = "forwarding" => response = Success

\* C14: after any request, whatever its outcome, the service gets back to
\* where it takes a further ingest and applies it to the history.
C14_ServiceStaysAvailable ==
    (pc # "boot") ~> (pc = "serving" /\ signals.t = "list")

\* the fields of Signal other than the two the forward may fill in
CarriedFields == {"action", "ticker", "price", "sl", "tp1", "tp2", "tp3", "date", "time"}

\* the caller's body has a value for `key`
Supplied(body, key) == key \in DOMAIN body.v /\ body.v[key] # PyNone

\* the caller's body has a non-empty value for `key`
SuppliedNonEmpty(body, key) == Supplied(body, key) /\ body.v[key] # PyStr("")

\* `text` is a synthesized message for the stored row `row`
IsSynthesized(text, row) ==
    /\ text.t = "str"
    /\ Contains(text.v, row.v["ticker"].v)
    /\ Contains(text.v, row.v["action"].v)
    /\ Contains(text.v, "Price:</b> " \o FloatStr(row.v["price"]))
    /\ Contains(text.v, "TP1:</b> " \o FloatStr(row.v["tp1"]))
    /\ Contains(text.v, "TP2:</b> " \o FloatStr(row.v["tp2"]))
    /\ Contains(text.v, "TP3:</b> " \o FloatStr(row.v["tp3"]))
    /\ Contains(text.v, "SL:</b> " \o FloatStr(row.v["sl"]))
    /\ Contains(text.v, "[green]") <=> Contains(Lower(row.v["action"].v), "buy")
    /\ Contains(text.v, "[red]") <=> ~Contains(Lower(row.v["action"].v), "buy")

\* C15 as claimed: the forwarded payload carries every field of the signal,
\* the caller's chat_id and text whenever the caller supplied them, and the
\* default chat_id and a synthesized text otherwise.
C15_ForwardCarriesSupplied ==
    pc = "forwarding"
    => /\ \A k \in CarriedFields : forward_data.v[k] = signals.v[1].v[k]
       /\ forward_data.v["chat_id"] =
             IF Supplied(request, "chat_id") THEN request.v["chat_id"]
             ELSE PyStr(DEFAULT_CHAT_ID)
       /\ IF Supplied(request, "text") THEN forward_data.v["text"] = request.v["text"]
          ELSE IsSynthesized(forward_data.v["text"], signals.v[1])

\* C15, amended: the forwarded payload carries every field of the signal, the
\* caller's chat_id and text when the caller supplied a non-empty one, and
\* otherwise (omitted or empty) the default chat_id and a synthesized text
\* with the ticker, action, price, tp1, tp2, tp3 and sl, marked as buy exactly
\* when the lower-cased action contains "buy".
C15_ForwardCarriesNonEmpty ==
    pc = "forwarding"
    => /\ \A k \in CarriedFields : forward_data.v[k] = signals.v[1].v[k]
       /\ forward_data.v["chat_id"] =
             IF SuppliedNonEmpty(request, "chat_id") THEN request.v["chat_id"]
             ELSE PyStr(DEFAULT_CHAT_ID)
       /\ IF SuppliedNonEmpty(request, "text")
          THEN forward_data.v["text"] = request.v["text"]
          ELSE IsSynthesized(forward_data.v["text"], signals.v[1])

\* a signal with empty chat_id and text is being forwarded with the default
\* chat_id and a buy-marked synthesized text
C15_Witness ==
    /\ pc = "forwarding"
    /\ request = BlankBody
    /\ forward_data.v["chat_id"] = PyStr(DEFAULT_CHAT_ID)
    /\ Contains(forward_data.v["text"].v, "[green]")

\* the row stored for BuyBody
StoredBuy == SignalDict(Stamped(ParseBody(BuyBody), 0))

\* the state part of C16: from the empty history the list holds one row per
\* ingest up to the capacity, and once the burst has pushed out every one of
\* its first MaxVaried signals it is exactly the last 50, all bodies of the
\* burst's tail
LastCapacityKept ==
    (seed = "empty" /\ signals.t = "list")
    => /\ Len(signals.v) =
            IF AcceptedAll(post_calls) > Capacity THEN Capacity
            ELSE AcceptedAll(post_calls)
       /\ AcceptedAll(post_calls) >= Capacity + MaxVaried
          => signals.v = Repeated(StoredBuy, Capacity)

\* the step part of C16: the ingested entry becomes the head, the previous
\* entries follow in their order, and only the oldest can go
EntryInsertedAtHead ==
    IngestStep("entry")
    => /\ signals'.t = "list"
       /\ Len(signals'.v) >= 1
       /\ Head(signals'.v) = SignalDict(Stamped(ParseBody(request'), now))
       /\ Len(signals'.v) \in {Len(signals.v), Len(signals.v) + 1}
       /\ Tail(signals'.v) = SubSeq(signals.v, 1, Len(signals'.v) - 1)

\* C16: the history is newest first and evicts the oldest: every ingested
\* entry signal becomes the head and the others keep their order; from the
\* empty history, after capacity+1 ingests the first one is gone and the list
\* is the last `capacity` signals, newest first.
C16_NewestFirstOldestEvicted ==
    []LastCapacityKept /\ [][EntryInsertedAtHead]_vars

\* 51 ingests from the empty history, the first a sell: the sell is gone
C16_Witness ==
    /\ seed = "empty"
    /\ post_calls["sell"] = 1
    /\ AcceptedAll(post_calls) = Capacity + 1
    /\ signals.v = Repeated(StoredBuy, Capacity)

\* C17 as claimed: an accepted signal whose action is none of buy, sell, win
\* and loss leaves total_trades, wins, losses and win_rate unchanged.
C17_UnrecognizedLeavesStats ==
    [][IngestStep("other") =>
            /\ stats'.total_trades = stats.total_trades
            /\ stats'.wins = stats.wins
            /\ stats'.losses = stats.losses
            /\ stats'.win_rate = stats.win_rate
      ]_vars

\* C17, amended: an accepted signal whose action is none of buy, sell, win
\* and loss is counted like any other: total_trades and today_trades grow by
\* 1, the signal is stored at the head of the history, and wins, losses and
\* win_rate stay as they are.
C17_UnrecognizedCountsAsTrade ==
    [][IngestStep("other") =>
            /\ stats'.total_trades = stats.total_trades + 1
            /\ stats'.today_trades = stats.today_trades + 1
            /\ stats'.wins = stats.wins
            /\ stats'.losses = stats.losses
            /\ stats'.win_rate = stats.win_rate
            /\ Len(signals'.v) >= 1
            /\ Head(signals'.v).v.action = request'.v["action"]
      ]_vars

\* a 'close' on the empty state was answered success and counted
C17_Witness ==
    /\ pc = "serving"
    /\ seed = "empty"
    /\ response = Success
    /\ request.v["action"] = PyStr("close")
    /\ post_calls = [NoCalls EXCEPT !["close"] = 1]
    /\ stats.total_trades = 1
    /\ stats.wins = 0 /\ stats.losses = 0

\* no webhook request has been handled or is in flight
NothingIngested ==
    /\ request = PyNone
    /\ response = NoResponse
    /\ post_calls = NoCalls
    /\ stats.today_trades = 0
    /\ inflight = <<>>

\* C18: the startup reconciliation is over, one way or another, before any
\* webhook request is handled: until then nothing is ingested, the step that
\* ends it starts from a state without ingests, and it never runs again, so
\* it neither overwrites nor counts twice an ingest.
C18_StartupBeforeIngest ==
    /\ [](pc = "boot" => NothingIngested /\ signals = PyList(<<>>) /\ stats = ZeroStats)
    /\ [][(startup_result' # startup_result \/ seed' # seed)
            => (pc = "boot" /\ NothingIngested)]_vars

\* two rows were loaded at startup, then one signal was ingested on top
C18_Witness ==
    /\ startup_result = "seeded"
    /\ response = Success
    /\ stats.today_trades = 1
    /\ stats.total_trades = 3
    /\ Len(signals.v) = 3
    /\ SubSeq(signals.v, 2, 3) = <<OldRow, OpenRow>>

\* dict.get(key) of row is a value other than None
FieldSet(row, key) == key \in DOMAIN row.v /\ row.v[key] # PyNone

\* C19: in every reachable state every entry of the history has its date and
\* its time set, whether an ingest stored it or the startup reconciliation did.
C19_EntriesHaveTimestamp ==
    signals.t = "list"
    => \A i \in 1..Len(signals.v) :
          FieldSet(signals.v[i], "date") /\ FieldSet(signals.v[i], "time")

\* what Signal(**payload) holds for the optional string `key` of body
ParsedOptional(body, key) == IF key \in DOMAIN body.v THEN body.v[key] ELSE PyNone

\* the state part of C20: while the forward is under way the stored head row
\* has chat_id and text as the caller gave them, None when omitted, and the
\* other fields as parsed; the default and the synthesized text are in the
\* forwarded copy only
StoredRowUntouched ==
    pc = "forwarding"
    => LET row == signals.v[1]
           parsed == ParseBody(request)
       IN  /\ row.v["chat_id"] = ParsedOptional(request, "chat_id")
           /\ row.v["text"] = ParsedOptional(request, "text")
           /\ \A k \in {"action", "ticker", "price", "sl", "tp1", "tp2", "tp3"} :
                 row.v[k] = parsed.v[k]
           /\ ~Supplied(request, "chat_id")
                => row.v["chat_id"] = PyNone
                   /\ forward_data.v["chat_id"] = PyStr(DEFAULT_CHAT_ID)
           /\ ~Supplied(request, "text")
                => row.v["text"] = PyNone /\ forward_data.v["text"].t = "str"

\* the step part of C20: once the service is up, a step that changes the
\* history puts one row in front and leaves every row that stays as it was
StoredRowsKept ==
    (pc # "boot" /\ signals' # signals)
    => /\ Len(signals'.v) \in {Len(signals.v), Len(signals.v) + 1}
       /\ \A i \in 2..Len(signals'.v) : signals'.v[i] = signals.v[i - 1]

\* C20: building the forwarded payload does not alter what is stored: the row
\* at the head keeps chat_id and text absent when the caller omitted them,
\* only the forwarded copy has the default chat_id and the synthesized text,
\* and no later ingest modifies a stored row.
C20_ForwardLeavesStoredRows ==
    []StoredRowUntouched /\ [][StoredRowsKept]_vars

\* a buy without chat_id and text was answered and a second signal ingested:
\* the buy's row, now second, still has neither
C20_Witness ==
    /\ pc = "forwarding"
    /\ Len(signals.v) >= 2
    /\ signals.v[2].v["action"] = PyStr("buy")
    /\ "chat_id" \in DOMAIN signals.v[2].v
    /\ signals.v[2].v["chat_id"] = PyNone
    /\ signals.v[2].v["text"] = PyNone
    /\ post_calls["buy"] >= 1

====
